---- MODULE Spec2Model ----
(***************************************************************************)
(* Price reconciliation pipeline of the investment dashboard               *)
(* (services/marketService and its two sibling builds, the AI search        *)
(* fallback of services/geminiService, and the refresh scheduling of the    *)
(* App shell).                                                              *)
(*                                                                         *)
(* Numbers.  A JavaScript number n is carried as the integer n * 10^5, so   *)
(* that one decimal digit below the toFixed(4) rounding is visible.  All    *)
(* quotes are chosen so that every intermediate value stays below 2^31.     *)
(* The catalogue price of shib, 0.000018, is below that resolution and is   *)
(* carried as 0.00002; both print as "0.0000" under toFixed(4).             *)
(*                                                                         *)
(* JavaScript objects keyed by asset id are functions over the ids of the   *)
(* tracked collection; the value 0 stands for "no such key" wherever the    *)
(* code only tests the entry for truthiness.                                *)
(***************************************************************************)
EXTENDS Integers, Sequences, FiniteSets, TLC

\* ---------------------------------------------------------------- bounds
MaxCycles == 2      \* refresh cycles started in one behaviour
MaxInflight == 2    \* refresh cycles awaiting at the same time
HistLen == 2        \* points of a price history

\* ------------------------------------------------------- numeric helpers
Unit == 10 ^ 5

Abs(x) == IF x < 0 THEN -x ELSE x

\* parseFloat(x.toFixed(4)): round to 4 decimals, half away from zero
Round4(x) == IF x >= 0 THEN ((x + 5) \div 10) * 10 ELSE -((((-x) + 5) \div 10) * 10)

\* floor(a * k / m) for a >= 0 without leaving 32 bits
MulDiv(a, k, m) == (a \div m) * k + ((a % m) * k) \div m

\* a * b for two scaled numbers, a with at most 2 and b with at most 3 decimals
MulScaled(a, b) == (a \div 1000) * (b \div 100)

RangeOf(s) == {s[i] : i \in 1..Len(s)}

\* ------------------------------------------------------------ the builds
\* Three builds of services/marketService are in the repository, and two of
\* services/geminiService.
Variants == {"part_000", "marketService", "part_003"}
Adapters == {"geminiService", "part_004"}

AllIds == {"sh_composite", "sh_silver", "shib", "usd_cny"}

BASE_PRICES_000 ==
  [id \in AllIds |-> CASE id = "sh_composite" -> 331025000
                       [] id = "sh_silver" -> 795000
                       [] id = "usd_cny" -> 728500
                       [] OTHER -> 0]

BASE_PRICES_MS ==
  [id \in AllIds |-> CASE id = "sh_composite" -> 326000000
                       [] id = "sh_silver" -> 785000
                       [] id = "usd_cny" -> 712000
                       [] OTHER -> 0]

BASE_PRICES_003 ==
  [id \in AllIds |-> CASE id = "sh_composite" -> 326050000
                       [] id = "sh_silver" -> 765000
                       [] id = "usd_cny" -> 725500
                       [] OTHER -> 0]

BASE_PRICES(v) ==
  CASE v = "part_000" -> BASE_PRICES_000
    [] v = "marketService" -> BASE_PRICES_MS
    [] v = "part_003" -> BASE_PRICES_003

\* price field of the catalogue entries (ALL_POSSIBLE_ASSETS / getInitialAssets)
CatalogPrice(v, id) ==
  CASE v = "part_000" /\ id = "shib" -> 2
    [] v = "part_000" /\ id = "usd_cny" -> 728000
    [] OTHER -> BASE_PRICES(v)[id]

\* The slice of the catalogue that is tracked, in catalogue order.
Portfolio(v) ==
  CASE v = "part_000" -> <<"sh_silver", "shib">>
    [] v = "marketService" -> <<"sh_silver", "usd_cny">>
    [] v = "part_003" -> <<"sh_composite", "sh_silver">>

\* The pairs of a marketService build and a geminiService build that are explored
Builds ==
  {<<"part_000", "geminiService">>, <<"part_000", "part_004">>,
   <<"marketService", "geminiService">>, <<"part_003", "part_004">>}

\* Math.random() - 0.5 is drawn from {-1/4, 1/4}
RandomSteps == {-1, 1}

\* The draws of one generateHistory call: a rising or a falling walk
RandomWalks == {[i \in 1..HistLen |-> s] : s \in RandomSteps}

\* generateHistory(basePrice, points): a forward walk from basePrice.  part_000
\* and marketService.ts take each step from the running price (and start from
\* 100 when basePrice is 0), part_003 takes every step from basePrice.
RECURSIVE generateHistoryFrom(_, _, _, _, _)
generateHistoryFrom(v, currentPrice, basePrice, rnd, i) ==
  IF i > Len(rnd) THEN <<>>
  ELSE LET start == IF v = "part_003" \/ basePrice # 0 THEN basePrice ELSE 100 * Unit
           volPerMille == IF start > 1000 * Unit THEN 2 ELSE 5
           stepBase == IF v = "part_003" THEN basePrice ELSE currentPrice
           change == rnd[i] * ((stepBase * volPerMille) \div 4000)
           next == currentPrice + change
       IN <<[time |-> i, value |-> Round4(next)]>>
            \o generateHistoryFrom(v, next, basePrice, rnd, i + 1)

generateHistory(v, basePrice, rnd) ==
  generateHistoryFrom(v, IF v = "part_003" \/ basePrice # 0 THEN basePrice ELSE 100 * Unit,
                      basePrice, rnd, 1)

NoSources == <<>>

CatalogAsset(v, id, rnd) ==
  [id |-> id, price |-> CatalogPrice(v, id), change |-> 0, changePercent |-> 0,
   history |-> generateHistory(v, CatalogPrice(v, id), rnd), sources |-> NoSources]

\* getInitialAssets() taking history: cached.history whatever its length
getInitialAssetsKeepEmpty(v, ids, rnd, st) ==
  LET saved == IF v # "part_003" /\ st.ok THEN st.snapshot ELSE <<>>
      restore(def) ==
        IF \E j \in 1..Len(saved) : saved[j].id = def.id
        THEN LET cached == saved[CHOOSE j \in 1..Len(saved) : saved[j].id = def.id]
             IN [def EXCEPT !.price = cached.price, !.change = cached.change,
                            !.changePercent = cached.changePercent,
                            !.history = cached.history,
                            !.sources = cached.sources]
        ELSE def
  IN [i \in 1..Len(ids) |-> restore(CatalogAsset(v, ids[i], rnd))]

\* getInitialAssets(): the catalogue, each entry overlaid with the asset of the
\* same id in the stored snapshot, if a snapshot can be read.  part_003 keeps
\* no snapshot.  st is localStorage: [ok, prices, snapshot].
getInitialAssets(v, ids, rnd, st) ==
  LET saved == IF v # "part_003" /\ st.ok THEN st.snapshot ELSE <<>>
      restore(def) ==
        IF \E j \in 1..Len(saved) : saved[j].id = def.id
        THEN LET cached == saved[CHOOSE j \in 1..Len(saved) : saved[j].id = def.id]
             IN [def EXCEPT !.price = cached.price, !.change = cached.change,
                            !.changePercent = cached.changePercent,
                            !.history = IF Len(cached.history) > 0 THEN cached.history
                                        ELSE def.history,
                            !.sources = cached.sources]
        ELSE def
  IN [i \in 1..Len(ids) |-> restore(CatalogAsset(v, ids[i], rnd))]

\* ------------------------------------------------------------- providers
\* What the feeds answer in one cycle.  sina and tencent hold the last price
\* the feed shows for an instrument code (0: nothing usable arrived), crypto
\* the CoinGecko usd value per asset id, fx the outcome of the exchange rate
\* request.
SinaCodes == {"sh000001", "nf_AG0", "hf_SI", "fx_susdcny"}

SinaQuotes(code) ==
  CASE code = "sh000001" -> {0, 330000000}
    [] code = "nf_AG0" -> {0, 715000, 715000000}
    [] code = "hf_SI" -> {0, 3400000}
    [] OTHER -> {0}

\* 3301.50 is within 1% of the Sina quote 3300.00, 3333.00 is at exactly 1%,
\* 3450.00 is beyond
TencentQuotes(id) ==
  IF id = "sh_composite" THEN {0, 330150000, 333300000, 345000000} ELSE {0}

\* CoinGecko's usd value: none, 0.00002, or the negative number -0.00009
CryptoQuotes(id) == IF id = "shib" THEN {0, 2, -9} ELSE {0}

FxOutcomes == {"fail", "nocny", "rate"}
FxRate == 73 * 10 ^ 4

SINA_CODES_MAP_000 ==
  [k \in AllIds \cup {"hf_silver"} |->
     CASE k = "sh_composite" -> "sh000001"
       [] k = "sh_silver" -> "nf_AG0"
       [] k = "hf_silver" -> "hf_SI"
       [] OTHER -> ""]

SINA_CODES_MAP_MS ==
  [k \in AllIds |->
     CASE k = "sh_composite" -> "sh000001"
       [] k = "sh_silver" -> "nf_AG0"
       [] k = "usd_cny" -> "fx_susdcny"
       [] OTHER -> ""]

SINA_CODES_003 ==
  [k \in AllIds |->
     CASE k = "sh_composite" -> "sh000001"
       [] k = "sh_silver" -> "nf_AG0"
       [] OTHER -> ""]

TENCENT_CODES == {"sh_composite"}

\* The instrument codes whose quote can reach one of the tracked assets.
CodesRead(v, ids) ==
  {c \in SinaCodes :
     \E id \in ids :
        \/ v = "part_000" /\ (c = SINA_CODES_MAP_000[id]
                               \/ (id = "sh_silver" /\ c = "hf_SI"))
        \/ v = "marketService" /\ c = SINA_CODES_MAP_MS[id] /\ c # "fx_susdcny"
        \/ v = "part_003" /\ c = SINA_CODES_003[id]}

SinaChoice(v, ids, c) == IF c \in CodesRead(v, ids) THEN SinaQuotes(c) ELSE {0}

SinaFeeds(v, ids) ==
  {[c \in SinaCodes |-> CASE c = "sh000001" -> x [] c = "nf_AG0" -> y
                          [] c = "hf_SI" -> z [] OTHER -> 0] :
     x \in SinaChoice(v, ids, "sh000001"), y \in SinaChoice(v, ids, "nf_AG0"),
     z \in SinaChoice(v, ids, "hf_SI")}

TencentFeeds(v, ids) ==
  {[i \in AllIds |-> IF i = "sh_composite" THEN x ELSE 0] :
     x \in (IF v = "part_003" /\ "sh_composite" \in ids
            THEN TencentQuotes("sh_composite") ELSE {0})}

CryptoFeeds(v, ids) ==
  {[i \in AllIds |-> IF i = "shib" THEN x ELSE 0] :
     x \in (IF v = "part_000" /\ "shib" \in ids THEN CryptoQuotes("shib") ELSE {0})}

\* The exchange rate is read by part_000 (usd_cny, and the conversion of the
\* international silver quote) and by part_003 (usd_cny).
FxFeeds(v, ids) ==
  IF v \in {"part_000", "part_003"} /\ "usd_cny" \in ids THEN FxOutcomes
  ELSE IF v = "part_000" /\ "sh_silver" \in ids THEN {"fail", "rate"}
  ELSE {"fail"}

Feeds(v, ids) ==
  {[sina |-> s, tencent |-> t, crypto |-> g, fx |-> x] :
     s \in SinaFeeds(v, ids), t \in TencentFeeds(v, ids),
     g \in CryptoFeeds(v, ids), x \in FxFeeds(v, ids)}

\* fetchSinaData: the record of positive prices by instrument code
fetchSinaData_000(q) == [c \in SinaCodes |-> IF q.sina[c] > 0 THEN q.sina[c] ELSE 0]

\* fetchSinaData of marketService.ts parses only nf_, sh and gb_ codes
fetchSinaData_MS(q) ==
  [c \in SinaCodes |-> IF c # "fx_susdcny" /\ c # "hf_SI" /\ q.sina[c] > 0 THEN q.sina[c] ELSE 0]

\* fetchSinaData of part_003 returns its prices by asset id
fetchSinaData_003(q) ==
  [id \in AllIds |-> IF SINA_CODES_003[id] # "" /\ q.sina[SINA_CODES_003[id]] > 0
                     THEN q.sina[SINA_CODES_003[id]] ELSE 0]

fetchTencentData(q) ==
  [id \in AllIds |-> IF id \in TENCENT_CODES /\ q.tencent[id] > 0 THEN q.tencent[id] ELSE 0]

\* fetchForexRate: 0 on failure, the base price when the answer has no CNY rate
fetchForexRate(v, q) ==
  CASE q.fx = "fail" -> 0
    [] q.fx = "nocny" -> BASE_PRICES(v)["usd_cny"]
    [] OTHER -> FxRate

fetchCryptoData(q) == [id \in AllIds |-> q.crypto[id]]

\* ---------------------------------------------------- AI search fallback
\* The answer of the generative model to one request: the request fails (no
\* key, rejected call, empty text, text that is not JSON), the text is the
\* JSON value null, or it is a JSON object that gives, per asset id, no key,
\* a number or a numeric string.
AIKinds == {"absent", "num", "str"}

AIQuote(id) ==
  CASE id = "sh_composite" -> 330550000
    [] id = "sh_silver" -> 715000000
    [] id = "usd_cny" -> 731234
    [] id = "shib" -> 9

NoKeys == [id \in AllIds |-> "absent"]

AIResponses(ids) ==
  {[status |-> "fail", kind |-> NoKeys], [status |-> "null", kind |-> NoKeys]}
    \cup {[status |-> "json", kind |-> k] :
            k \in {f \in [AllIds -> AIKinds] : \A id \in AllIds \ ids : f[id] = "absent"}}

EmptyRecord == [id \in AllIds |-> 0]

NoAIPrices == [null |-> FALSE, val |-> EmptyRecord, str |-> {}]

\* parseFinancialNumber(val): a number is returned as it is, a numeric string
\* is parsed, anything else is 0
parseFinancialNumber(kind, n) == IF kind \in {"num", "str"} THEN n ELSE 0

\* fetchLatestPricesViaAI of services/geminiService.ts returns the parsed JSON
\* as it is
fetchLatestPricesViaAI_gemini(assetsToFetch, r) ==
  IF assetsToFetch = <<>> \/ r.status = "fail" THEN NoAIPrices
  ELSE IF r.status = "null" THEN [null |-> TRUE, val |-> EmptyRecord, str |-> {}]
  ELSE [null |-> FALSE,
        val |-> [id \in AllIds |-> IF r.kind[id] = "absent" THEN 0 ELSE AIQuote(id)],
        str |-> {id \in AllIds : r.kind[id] = "str"}]

\* fetchLatestPricesViaAI of part_004 keeps, per chunk, the values that parse
\* to a positive number; a chunk that throws contributes nothing
fetchLatestPricesViaAI_part004(assetsToFetch, r) ==
  IF assetsToFetch = <<>> \/ r.status # "json" THEN NoAIPrices
  ELSE [null |-> FALSE,
        val |-> [id \in AllIds |->
                   IF parseFinancialNumber(r.kind[id], AIQuote(id)) > 0
                   THEN parseFinancialNumber(r.kind[id], AIQuote(id)) ELSE 0],
        str |-> {}]

fetchLatestPricesViaAI(a, assetsToFetch, r) ==
  IF a = "geminiService" THEN fetchLatestPricesViaAI_gemini(assetsToFetch, r)
  ELSE fetchLatestPricesViaAI_part004(assetsToFetch, r)

\* --------------------------------------------------------------- API key
\* A key is given by who supplied it and by its length; length 0 is no key.
NoKey == [owner |-> "none", length |-> 0]

\* process.env.API_KEY of the build
BuildKeys == {NoKey, [owner |-> "build", length |-> 39]}

\* localStorage item user_custom_api_key, written by the settings view
StoredKeys == {NoKey, [owner |-> "user", length |-> 8], [owner |-> "user", length |-> 39]}

KeyConfigs == [env : BuildKeys, local : StoredKeys]

\* A stored key of any length taken
getEffectiveConfigAnyLength(cfg, st) ==
  IF st.ok /\ cfg.local.length > 0 THEN cfg.local ELSE cfg.env

\* let apiKey = process.env.API_KEY;
\* try { if (localKey && localKey.length > 10) apiKey = localKey } catch (e) {}
getEffectiveConfig(cfg, st) ==
  IF st.ok /\ cfg.local.length > 10 THEN cfg.local ELSE cfg.env

IdsOf(assets) == [i \in 1..Len(assets) |-> assets[i].id]

\* One call of fetchLatestPricesViaAI, from its first statement:
\* const { apiKey } = getEffectiveConfig();
\* if (!apiKey || assetsToFetch.length === 0) return {};
\* const ai = new GoogleGenAI({ apiKey });  ... ai.models.generateContent(...)
AdapterCall(a, cfg, st, assetsToFetch, r) ==
  LET apiKey == getEffectiveConfig(cfg, st)
      early == apiKey.length = 0 \/ assetsToFetch = <<>>
  IN [cfg |-> cfg, ids |-> IdsOf(assetsToFetch), apiKey |-> apiKey,
      client |-> ~early, request |-> ~early,
      result |-> IF early THEN NoAIPrices ELSE fetchLatestPricesViaAI(a, assetsToFetch, r)]

\* ----------------------------------------------------------- cache store
\* localStorage: ok = FALSE is a storage whose every access throws.
loadCache(st) == IF st.ok THEN st.prices ELSE EmptyRecord

\* A saveCache that stores the new batch in place of the old cache
saveCacheReplaces(st, newPrices) ==
  IF st.ok THEN [st EXCEPT !.prices = newPrices] ELSE st

saveCache(st, newPrices) ==
  IF st.ok
  THEN [st EXCEPT !.prices = [id \in AllIds |->
                                IF newPrices[id] # 0 THEN newPrices[id] ELSE st.prices[id]]]
  ELSE st

saveAssetsCache(st, assets) == IF st.ok THEN [st EXCEPT !.snapshot = assets] ELSE st

\* -------------------------------------------- structured providers, part_000
NotFound == [found |-> FALSE, price |-> 0, source |-> ""]

Commodities_000 == {"sh_silver"}

getSinaVal(sinaData, sinaKey) ==
  IF SINA_CODES_MAP_000[sinaKey] # "" THEN sinaData[SINA_CODES_MAP_000[sinaKey]] ELSE 0

\* Priority A of the commodity branch: the domestic quote
DomesticPrice(id, domVal) ==
  IF id = "sh_silver" /\ domVal > 1000 * Unit THEN domVal \div 1000 ELSE domVal

\* Priority B: the international backup, converted to CNY per gram
BackupPrice(id, iVal, validCny) == MulDiv(MulScaled(iVal, validCny), 2000, 62207)

\* The commodity branch with the two priorities exchanged
ResolveCommodity_BackupFirst(id, sinaData, validCny) ==
  LET domVal == getSinaVal(sinaData, id)
      iVal == IF id = "sh_silver" THEN getSinaVal(sinaData, "hf_silver") ELSE 0
  IN IF iVal > 0
     THEN [found |-> TRUE, price |-> BackupPrice(id, iVal, validCny),
           source |-> "COMEX (Int'l)"]
     ELSE IF domVal > 0
     THEN [found |-> TRUE, price |-> DomesticPrice(id, domVal), source |-> "Sina (SHFE)"]
     ELSE NotFound

ResolveCommodity_000(id, sinaData, validCny) ==
  LET domVal == getSinaVal(sinaData, id)
      iVal == IF id = "sh_silver" THEN getSinaVal(sinaData, "hf_silver") ELSE 0
  IN IF domVal > 0
     THEN [found |-> TRUE, price |-> DomesticPrice(id, domVal), source |-> "Sina (SHFE)"]
     ELSE IF iVal > 0
     THEN [found |-> TRUE, price |-> BackupPrice(id, iVal, validCny),
           source |-> "COMEX (Int'l)"]
     ELSE NotFound

Resolve_000(id, sinaData, cnyRate, cryptoData) ==
  LET validCny == IF cnyRate # 0 THEN cnyRate ELSE BASE_PRICES_000["usd_cny"]
  IN IF id \in Commodities_000 THEN ResolveCommodity_000(id, sinaData, validCny)
     ELSE IF SINA_CODES_MAP_000[id] # ""
     THEN (IF getSinaVal(sinaData, id) > 0
           THEN [found |-> TRUE, price |-> getSinaVal(sinaData, id),
                 source |-> "Sina Finance"]
           ELSE NotFound)
     ELSE IF cryptoData[id] # 0
     THEN [found |-> TRUE, price |-> cryptoData[id], source |-> "CoinGecko"]
     ELSE IF id = "usd_cny" /\ cnyRate # 0
     THEN [found |-> TRUE, price |-> cnyRate, source |-> "ExRateAPI"]
     ELSE NotFound

\* Sina only, marketService.ts
Resolve_MS(id, sinaData) ==
  LET sinaCode == SINA_CODES_MAP_MS[id]
  IN IF sinaCode # "" /\ sinaData[sinaCode] > 0
     THEN [found |-> TRUE,
           price |-> IF id = "sh_silver" /\ sinaData[sinaCode] > 500 * Unit
                     THEN sinaData[sinaCode] \div 1000 ELSE sinaData[sinaCode],
           source |-> "Sina Finance"]
     ELSE NotFound

\* The cross-validation with a tolerance that includes 1%
Resolve_003_Inclusive(id, sina, tencent, cnyRate) ==
  IF id = "sh_composite"
  THEN (IF sina[id] # 0 /\ tencent[id] # 0
        THEN [found |-> TRUE,
              price |-> IF Abs(sina[id] - tencent[id]) * 100 <= sina[id]
                        THEN (sina[id] + tencent[id]) \div 2 ELSE sina[id],
              source |-> ""]
        ELSE IF sina[id] # 0 THEN [found |-> TRUE, price |-> sina[id], source |-> ""]
        ELSE IF tencent[id] # 0 THEN [found |-> TRUE, price |-> tencent[id], source |-> ""]
        ELSE NotFound)
  ELSE IF id = "sh_silver"
  THEN (IF sina[id] # 0
        THEN [found |-> TRUE,
              price |-> IF sina[id] > 500 * Unit THEN sina[id] \div 1000 ELSE sina[id],
              source |-> ""]
        ELSE NotFound)
  ELSE IF id = "usd_cny" /\ cnyRate # 0
  THEN [found |-> TRUE, price |-> cnyRate, source |-> ""]
  ELSE NotFound

\* Sina and Tencent, part_003
Resolve_003(id, sina, tencent, cnyRate) ==
  IF id = "sh_composite"
  THEN (IF sina[id] # 0 /\ tencent[id] # 0
        THEN [found |-> TRUE,
              price |-> IF Abs(sina[id] - tencent[id]) * 100 < sina[id]
                        THEN (sina[id] + tencent[id]) \div 2 ELSE sina[id],
              source |-> ""]
        ELSE IF sina[id] # 0 THEN [found |-> TRUE, price |-> sina[id], source |-> ""]
        ELSE IF tencent[id] # 0 THEN [found |-> TRUE, price |-> tencent[id], source |-> ""]
        ELSE NotFound)
  ELSE IF id = "sh_silver"
  THEN (IF sina[id] # 0
        THEN [found |-> TRUE,
              price |-> IF sina[id] > 500 * Unit THEN sina[id] \div 1000 ELSE sina[id],
              source |-> ""]
        ELSE NotFound)
  ELSE IF id = "usd_cny" /\ cnyRate # 0
  THEN [found |-> TRUE, price |-> cnyRate, source |-> ""]
  ELSE NotFound

\* What the structured providers resolve for one asset of a cycle
Resolve(v, id, q) ==
  CASE v = "part_000" ->
         Resolve_000(id, fetchSinaData_000(q), fetchForexRate(v, q), fetchCryptoData(q))
    [] v = "marketService" -> Resolve_MS(id, fetchSinaData_MS(q))
    [] v = "part_003" ->
         Resolve_003(id, fetchSinaData_003(q), fetchTencentData(q), fetchForexRate(v, q))

\* finalPrices, finalSources and missingAssets after the loop over currentAssets
StructuredPhase(v, currentAssets, q) ==
  LET ids == RangeOf(IdsOf(currentAssets))
      res == [id \in AllIds |-> IF id \in ids THEN Resolve(v, id, q) ELSE NotFound]
  IN [prices |-> [id \in AllIds |-> res[id].price],
      sources |-> [id \in AllIds |-> IF res[id].found THEN <<res[id].source>> ELSE <<>>],
      str |-> {},
      missingAssets |-> SelectSeq(currentAssets, LAMBDA a : ~res[a.id].found)]

\* ------------------------------------------------------ applying AI prices
\* Object.entries(aiPrices).forEach(([id, price]) => { if (price > 0) setPrice(...) })
\* A numeric string passes price > 0 and is stored as a string.
AIApply_000(fin, ai) ==
  [fin EXCEPT
     !.prices = [id \in AllIds |-> IF ai.val[id] > 0 THEN ai.val[id] ELSE fin.prices[id]],
     !.sources = [id \in AllIds |-> IF ai.val[id] > 0 THEN <<"AI Search">>
                                    ELSE fin.sources[id]],
     !.str = {id \in ai.str : ai.val[id] > 0}]

\* marketService.ts divides a silver value above 500 by 1000, which turns a
\* string into a number
AIApply_MS(fin, ai) ==
  LET conv(id) == id = "sh_silver" /\ ai.val[id] > 500 * Unit
  IN [fin EXCEPT
        !.prices = [id \in AllIds |->
                      IF ai.val[id] > 0
                      THEN (IF conv(id) THEN ai.val[id] \div 1000 ELSE ai.val[id])
                      ELSE fin.prices[id]],
        !.sources = [id \in AllIds |-> IF ai.val[id] > 0 THEN <<"AI (Huilvbao)">>
                                       ELSE fin.sources[id]],
        !.str = {id \in ai.str : ai.val[id] > 0 /\ ~conv(id)}]

\* ------------------------------------------------------------------ merge
RECURSIVE LongDiv(_, _, _, _)
LongDiv(q, r, m, k) ==
  IF k = 0 THEN [q |-> q, r |-> r]
  ELSE LongDiv(q * 10 + (r * 10) \div m, (r * 10) % m, m, k - 1)

\* parseFloat(((changeVal / open) * 100).toFixed(4)), in units of 0.0001 percent;
\* a ratio of 2000 or more is beyond what the model carries and saturates
PctOf(changeVal, open) ==
  LET big == Abs(open) >= 10 ^ 8
      c == IF big THEN Abs(changeVal) \div 10 ELSE Abs(changeVal)
      o == IF big THEN Abs(open) \div 10 ELSE Abs(open)
      d == LongDiv(c \div o, c % o, o, 6)
      mag == IF c \div o >= 2000 THEN 2 * 10 ^ 9
             ELSE d.q + (IF 2 * d.r >= o THEN 1 ELSE 0)
  IN IF (changeVal < 0) = (open < 0) THEN mag ELSE -mag

\* A drift that loses the oldest point
ShiftHistoryDropsOldest(history, diff) ==
  [i \in 1..(Len(history) - 1) |->
     [history[i + 1] EXCEPT !.value = history[i + 1].value + diff]]

ShiftHistory(history, diff) ==
  [i \in 1..Len(history) |-> [history[i] EXCEPT !.value = history[i].value + diff]]

\* The derived fields and the returned object of one asset
Finalize(asset, price, newHistory, sources) ==
  LET open == IF Len(newHistory) > 0 /\ newHistory[1].value # 0
              THEN newHistory[1].value ELSE price
      changeVal == price - open
      changePct == IF open # 0 THEN PctOf(changeVal, open) ELSE 0
  IN [asset EXCEPT !.price = Round4(price), !.change = Round4(changeVal),
                   !.changePercent = changePct, !.history = newHistory,
                   !.sources = sources]

\* One asset of the updatedAssets map of part_000 and marketService.ts
MergeAsset_000(v, asset, fin, cachedData) ==
  LET id == asset.id
      live == fin.prices[id] # 0
      price == IF live THEN fin.prices[id]
               ELSE IF cachedData[id] # 0 THEN cachedData[id]
               ELSE IF asset.price # 0 THEN asset.price
               ELSE BASE_PRICES(v)[id]
      sources == IF live THEN fin.sources[id]
                 ELSE IF cachedData[id] # 0 THEN <<"Cache">>
                 ELSE <<"Offline">>
      drift == "Cache" \notin RangeOf(sources) /\ "Offline" \notin RangeOf(sources)
      diff == IF drift THEN price - (IF asset.price # 0 THEN asset.price ELSE price)
              ELSE 0
  IN Finalize(asset, price, ShiftHistory(asset.history, diff), sources)

\* price.toFixed(4) throws on a price that is a string
Merge_000(v, currentAssets, fin, cachedData) ==
  LET ids == RangeOf(IdsOf(currentAssets))
  IN [threw |-> \E id \in ids : fin.prices[id] # 0 /\ id \in fin.str,
      assets |-> [i \in 1..Len(currentAssets) |->
                    MergeAsset_000(v, currentAssets[i], fin, cachedData)],
      validNewPrices |-> [id \in AllIds |-> IF id \in ids THEN fin.prices[id] ELSE 0]]

\* One asset of the updatedAssets map of part_003; q gives the labels
MergeAsset_003(asset, fin, sina, tencent, ai, cachedPrices) ==
  LET id == asset.id
      api == fin.prices[id] # 0
      viaAI == ~api /\ ai.val[id] # 0
      aiConv == id = "sh_silver" /\ ai.val[id] > 500 * Unit
      cached == ~api /\ ~viaAI /\ cachedPrices[id] # 0
      chosen == IF api THEN fin.prices[id]
                ELSE IF viaAI THEN (IF aiConv THEN ai.val[id] \div 1000 ELSE ai.val[id])
                ELSE IF cached THEN cachedPrices[id]
                ELSE IF BASE_PRICES_003[id] # 0 THEN BASE_PRICES_003[id]
                ELSE asset.price
      sources == IF api
                 THEN (IF id = "sh_composite" /\ sina[id] # 0 /\ tencent[id] # 0
                       THEN <<"Sina", "Tencent">>
                       ELSE IF id \in {"sh_composite", "sh_silver"} /\ sina[id] # 0
                       THEN <<"Sina">> ELSE <<"API">>)
                 ELSE IF viaAI THEN <<"AI Search">>
                 ELSE IF cached THEN <<"Cache">>
                 ELSE <<"Base">>
      notNumber == viaAI /\ id \in ai.str /\ ~aiConv
      newPrice == IF notNumber \/ chosen <= 0 THEN BASE_PRICES_003[id] ELSE chosen
  IN [asset |-> Finalize(asset, newPrice, ShiftHistory(asset.history, newPrice - asset.price),
                         sources),
      newPrice |-> newPrice]

\* aiPrices[asset.id] throws when aiPrices is null and an asset reaches that test
Merge_003(currentAssets, fin, sina, tencent, ai, cachedPrices) ==
  LET ids == RangeOf(IdsOf(currentAssets))
      m == [i \in 1..Len(currentAssets) |->
              MergeAsset_003(currentAssets[i], fin, sina, tencent, ai, cachedPrices)]
  IN [threw |-> ai.null /\ \E id \in ids : fin.prices[id] = 0,
      assets |-> [i \in 1..Len(currentAssets) |-> m[i].asset],
      validNewPrices |->
        [id \in AllIds |->
           IF \E i \in 1..Len(currentAssets) : currentAssets[i].id = id
           THEN m[CHOOSE i \in 1..Len(currentAssets) : currentAssets[i].id = id].newPrice
           ELSE 0]]

\* ------------------------------------------------------------------ state
VARIABLES
  variant,     \* the build of services/marketService
  adapter,     \* the build of services/geminiService
  storage,     \* localStorage: [ok, prices (flat price cache), snapshot]
  assets,      \* App state: the asset collection of the last committed render
  isUpdating,  \* App state: the re-entrancy flag of the last committed render
  mounted,     \* the mount effect has run
  timer,       \* what the syncRealData closure held by setInterval sees
  cycles,      \* the calls of fetchRealTimePrices that have not resolved yet
  started,     \* number of calls of fetchRealTimePrices so far
  settled,     \* observation: the provider phase that finished in the last step
  aiCall,      \* observation: the last call of fetchLatestPricesViaAI made on its own
  probe,       \* observation: the last call of an exported helper made on its own
  done         \* observation: the call of fetchRealTimePrices that resolved in the last step

vars == <<variant, adapter, storage, assets, isUpdating, mounted, timer, cycles, started,
          settled, aiCall, probe, done>>

NoCall == [n |-> 0]

NoFin == [prices |-> EmptyRecord, sources |-> [id \in AllIds |-> <<>>], str |-> {},
          missingAssets |-> <<>>]

Init ==
  /\ \E b \in Builds : variant = b[1] /\ adapter = b[2]
  /\ \E ok \in BOOLEAN : storage = [ok |-> ok, prices |-> EmptyRecord, snapshot |-> <<>>]
  /\ \E rnd \in RandomWalks : assets = getInitialAssets(variant, Portfolio(variant), rnd, storage)
  /\ isUpdating = FALSE
  /\ mounted = FALSE
  /\ timer = [isUpdating |-> FALSE, assets |-> <<>>]
  /\ cycles = {}
  /\ started = 0
  /\ settled = NoCall
  /\ aiCall = NoCall
  /\ probe = NoCall
  /\ done = NoCall

\* ------------------------------------------------------------- App shell
\* if (isUpdating) return;  evaluated by the closure of one render
Suppressed(closureIsUpdating) == closureIsUpdating

\* const syncRealData = async () => { if (isUpdating) return; setIsUpdating(true);
\*   const updatedAssets = await fetchRealTimePrices(assets); ... }
\* run up to its first await, with the isUpdating and assets of the render
\* that created the closure.  part_003 reads the flat cache before that await.
syncRealData(closure, trigger) ==
  IF Suppressed(closure.isUpdating)
  THEN UNCHANGED <<isUpdating, cycles, started>>
  ELSE /\ started < MaxCycles
       /\ Cardinality(cycles) < MaxInflight
       /\ isUpdating' = TRUE
       /\ started' = started + 1
       /\ cycles' = cycles \cup
            {[n |-> started + 1, trigger |-> trigger, input |-> closure.assets,
              pc |-> "providers", fin |-> NoFin, sina |-> EmptyRecord,
              tencent |-> EmptyRecord,
              cachedPrices |-> IF variant = "part_003" THEN loadCache(storage)
                               ELSE EmptyRecord]}

\* useEffect(() => { syncRealData(); setInterval(syncRealData, rate) }, [rate])
Mount ==
  /\ ~mounted
  /\ mounted' = TRUE
  /\ timer' = [isUpdating |-> isUpdating, assets |-> assets]
  /\ syncRealData([isUpdating |-> isUpdating, assets |-> assets], "mount")
  /\ settled' = NoCall /\ aiCall' = NoCall /\ probe' = NoCall /\ done' = NoCall
  /\ UNCHANGED <<variant, adapter, storage, assets>>

\* The page is loaded again: the module is evaluated anew (fresh catalogue
\* histories), useState(getInitialAssets) reads the snapshot, and the promises
\* and the interval of the previous page are gone.
Reload ==
  /\ mounted
  /\ \E rnd \in RandomWalks :
        assets' = getInitialAssets(variant, Portfolio(variant), rnd, storage)
  /\ isUpdating' = FALSE
  /\ mounted' = FALSE
  /\ timer' = [isUpdating |-> FALSE, assets |-> <<>>]
  /\ cycles' = {}
  /\ settled' = NoCall /\ aiCall' = NoCall /\ probe' = NoCall /\ done' = NoCall
  /\ UNCHANGED <<variant, adapter, storage, started>>

\* The interval fires: the closure of the render in which the effect ran
Tick ==
  /\ mounted
  /\ syncRealData(timer, "interval")
  /\ settled' = NoCall /\ aiCall' = NoCall /\ probe' = NoCall /\ done' = NoCall
  /\ UNCHANGED <<variant, adapter, storage, assets, mounted, timer>>

\* The refresh button: the closure of the last committed render
Click ==
  /\ mounted
  /\ syncRealData([isUpdating |-> isUpdating, assets |-> assets], "manual")
  /\ settled' = NoCall /\ aiCall' = NoCall /\ probe' = NoCall /\ done' = NoCall
  /\ UNCHANGED <<variant, adapter, storage, assets, mounted, timer>>

\* ------------------------------------------------- fetchRealTimePrices
\* A catch block that lets the failure out: the promise rejects
CatchGlobalRethrows(currentAssets) == [status |-> "rejected", assets |-> <<>>]

\* catch (e) { return currentAssets; }
CatchGlobal(currentAssets) == [status |-> "resolved", assets |-> currentAssets]

\* The drift written into asset.history itself instead of a copy
CallerViewAliased(currentAssets, updatedAssets) ==
  [i \in 1..Len(currentAssets) |->
     [currentAssets[i] EXCEPT !.history = updatedAssets[i].history]]

\* What the caller's array holds once the map over currentAssets has run:
\* const newHistory = [...asset.history]; newHistory[i] = { ...p, value: ... };
\* return { ...asset, ... }  write to copies only, so the array, its asset
\* objects and their history points are as they were.
CallerView(currentAssets, updatedAssets) == currentAssets

\* The two stores written although the merge threw
PersistAlthoughThrown(v, threw, st, m) ==
  LET st1 == IF v # "part_003" /\ m.validNewPrices = EmptyRecord THEN st
             ELSE saveCache(st, m.validNewPrices)
  IN IF v = "part_003" THEN st1 ELSE saveAssetsCache(st1, m.assets)

\* if (Object.keys(validNewPrices).length > 0) saveCache(validNewPrices);
\* saveAssetsCache(updatedAssets);   (part_003: saveCache(finalPrices) only)
\* These statements follow the map over currentAssets, so they are not reached
\* when something before them threw.
Persist(v, threw, st, m) ==
  LET st1 == IF threw \/ (v # "part_003" /\ m.validNewPrices = EmptyRecord) THEN st
             ELSE saveCache(st, m.validNewPrices)
  IN IF threw \/ v = "part_003" THEN st1 ELSE saveAssetsCache(st1, m.assets)

\* Everything after the last await of fetchRealTimePrices: AI prices applied,
\* cache read, assets merged, both stores written.
Complete(c, ai) ==
  LET v == variant
      applied == CASE v = "part_000" -> AIApply_000(c.fin, ai)
                   [] v = "marketService" -> AIApply_MS(c.fin, ai)
                   [] v = "part_003" -> c.fin
      cachedData == IF v = "part_003" THEN c.cachedPrices ELSE loadCache(storage)
      m == IF v = "part_003"
           THEN Merge_003(c.input, c.fin, c.sina, c.tencent, ai, cachedData)
           ELSE Merge_000(v, c.input, applied, cachedData)
      threw == (v # "part_003" /\ ai.null) \/ m.threw
      saved == IF threw THEN EmptyRecord ELSE m.validNewPrices
      st2 == Persist(v, threw, storage, m)
      ret == IF threw THEN CatchGlobal(c.input)
             ELSE [status |-> "resolved", assets |-> m.assets]
  IN [n |-> c.n, trigger |-> c.trigger, input |-> c.input,
      sina |-> c.sina, tencent |-> c.tencent,
      inputAfter |-> CallerView(c.input, m.assets),
      structured |-> c.fin, ai |-> ai, fin |-> applied, cachedData |-> cachedData,
      threw |-> threw, saved |-> saved, status |-> ret.status, output |-> ret.assets,
      storageAfter |-> st2]

\* fetchRealTimePrices resolves and syncRealData continues:
\* setAssets(updatedAssets); setIsUpdating(false)
Resolved(c, d) ==
  /\ done' = d
  /\ storage' = d.storageAfter
  /\ cycles' = cycles \ {c}
  /\ assets' = IF d.status = "resolved" THEN d.output ELSE assets
  /\ isUpdating' = IF d.status = "resolved" THEN FALSE ELSE isUpdating
  /\ timer' = IF timer.assets = c.input THEN [timer EXCEPT !.assets = d.inputAfter]
              ELSE timer
  /\ UNCHANGED <<variant, adapter, mounted, started>>

\* The cycle after Promise.all of the provider adapters has settled
Settle(c, q) ==
  [c EXCEPT !.fin = StructuredPhase(variant, c.input, q),
            !.sina = IF variant = "part_003" THEN fetchSinaData_003(q) ELSE EmptyRecord,
            !.tencent = IF variant = "part_003" THEN fetchTencentData(q) ELSE EmptyRecord,
            !.pc = "ai"]

Observed(c, q, fin) == [n |-> c.n, input |-> c.input, q |-> q, fin |-> fin]

\* The AI adapter awaited in every cycle
AINeededAlways(fin) == TRUE

\* if (missingAssets.length > 0) { ... await fetchLatestPricesViaAI(missingAssets) ... }
AINeeded(fin) == fin.missingAssets # <<>>

\* Promise.all settles with no asset left unresolved: no AI call is made
ProvidersSettleAll ==
  \E c \in cycles : \E q \in Feeds(variant, RangeOf(IdsOf(c.input))) :
     LET s == Settle(c, q)
     IN /\ c.pc = "providers"
        /\ ~AINeeded(s.fin)
        /\ settled' = Observed(c, q, s.fin)
        /\ aiCall' = NoCall /\ probe' = NoCall
        /\ Resolved(c, Complete(s, NoAIPrices))

\* Promise.all settles with assets left unresolved: fetchLatestPricesViaAI is awaited
ProvidersSettleMissing ==
  \E c \in cycles : \E q \in Feeds(variant, RangeOf(IdsOf(c.input))) :
     LET s == Settle(c, q)
     IN /\ c.pc = "providers"
        /\ AINeeded(s.fin)
        /\ settled' = Observed(c, q, s.fin)
        /\ cycles' = (cycles \ {c}) \cup {s}
        /\ aiCall' = NoCall /\ probe' = NoCall
        /\ done' = NoCall
        /\ UNCHANGED <<variant, adapter, storage, assets, isUpdating, mounted, timer,
                       started>>

\* The timer fetchSinaData arms next to the script it injects, in ms; 0: none.
\* When it fires the adapter resolves with the prices read so far.
SinaTimeout(v) ==
  CASE v = "part_000" -> 4000
    [] v = "marketService" -> 0
    [] v = "part_003" -> 2500

\* The injected script fires neither load nor error.  With a timer the adapter
\* resolves empty-handed, which ProvidersSettleAll and ProvidersSettleMissing
\* cover with a feed that has no Sina quote; without one the promise of
\* fetchSinaData, and Promise.all with it, stays pending.
ScriptSilent ==
  \E c \in cycles :
     /\ c.pc = "providers"
     /\ SinaTimeout(variant) = 0
     /\ cycles' = (cycles \ {c}) \cup {[c EXCEPT !.pc = "pending"]}
     /\ settled' = NoCall /\ aiCall' = NoCall /\ probe' = NoCall /\ done' = NoCall
     /\ UNCHANGED <<variant, adapter, storage, assets, isUpdating, mounted, timer,
                    started>>

\* fetchLatestPricesViaAI resolves
AIReturn ==
  \E c \in cycles : \E r \in AIResponses(RangeOf(IdsOf(c.input))) :
     /\ c.pc = "ai"
     /\ settled' = NoCall
     /\ aiCall' = NoCall /\ probe' = NoCall
     /\ Resolved(c, Complete(c, fetchLatestPricesViaAI(adapter, c.fin.missingAssets, r)))

Next ==
  \/ Mount
  \/ Tick
  \/ Click
  \/ Reload
  \/ ProvidersSettleAll
  \/ ProvidersSettleMissing
  \/ ScriptSilent
  \/ AIReturn

Spec == Init /\ [][Next]_vars

\* fetchRealTimePrices resolves: the step of ProvidersSettleAll or AIReturn,
\* told by what it does to the cycles in flight
CycleResolves ==
  /\ mounted' = mounted
  /\ \E c \in cycles : c.pc \in {"providers", "ai"} /\ cycles' = cycles \ {c}

\* ------------------------------------- the requests of the AI adapter
\* The four modelled entries of ALL_POSSIBLE_ASSETS, in catalogue order
Catalog == <<"sh_composite", "sh_silver", "shib", "usd_cny">>

\* const chunkSize = 3  (part_004)
chunkSize == 3

\* for (let i = 0; i < assetsToFetch.length; i += chunkSize)
\*   chunks.push(assetsToFetch.slice(i, i + chunkSize));
RECURSIVE Chunks(_)
Chunks(assetsToFetch) ==
  IF assetsToFetch = <<>> THEN <<>>
  ELSE IF Len(assetsToFetch) <= chunkSize THEN <<assetsToFetch>>
  ELSE <<SubSeq(assetsToFetch, 1, chunkSize)>>
         \o Chunks(SubSeq(assetsToFetch, chunkSize + 1, Len(assetsToFetch)))

\* The generateContent requests of one call: part_004 sends one per chunk,
\* services/geminiService.ts one for the whole list
Requests(a, assetsToFetch) ==
  IF assetsToFetch = <<>> THEN <<>>
  ELSE IF a = "geminiService" THEN <<assetsToFetch>>
  ELSE Chunks(assetsToFetch)

\* fetchLatestPricesViaAI with one answer per request: every request writes
\* what it parsed into the one results record (an id named by two answers has
\* the same quote in both)
fetchLatestPricesViaAI_requests(a, assetsToFetch, rs) ==
  LET reqs == Requests(a, assetsToFetch)
      part(k) == fetchLatestPricesViaAI(a, reqs[k], rs[k])
      N == Len(reqs)
  IN IF N = 0 THEN NoAIPrices
     ELSE [null |-> \E k \in 1..N : part(k).null,
           val |-> [id \in AllIds |->
                      IF \E k \in 1..N : part(k).val[id] # 0
                      THEN part(CHOOSE k \in 1..N : part(k).val[id] # 0).val[id]
                      ELSE 0],
           str |-> UNION {part(k).str : k \in 1..N}]

\* fetchLatestPricesViaAI called once, with any list of catalogue assets and
\* any answer to each of its requests
CallWithRequests ==
  \E S \in SUBSET AllIds : \E rnd \in RandomWalks :
     aiCall = NoCall /\
     LET list == SelectSeq([i \in 1..Len(Catalog) |-> CatalogAsset(variant, Catalog[i], rnd)],
                           LAMBDA x : x.id \in S)
         reqs == Requests(adapter, list)
     IN \E rs \in [1..Len(reqs) -> AIResponses(AllIds)] :
          /\ aiCall' = [ids |-> IdsOf(list),
                        requests |-> [k \in 1..Len(reqs) |-> IdsOf(reqs[k])],
                        answers |-> rs,
                        result |-> fetchLatestPricesViaAI_requests(adapter, list, rs)]
          /\ UNCHANGED <<variant, adapter, storage, assets, isUpdating, mounted, timer,
                         cycles, started, settled, probe, done>>

NextRequests == CallWithRequests

SpecRequests == Init /\ [][NextRequests]_vars

\* --------------------------------------- the exported helpers on their own
\* The base prices the helpers are called with: none, and the catalogue prices
HistoryBases == {0} \cup {CatalogPrice(v, id) : v \in Variants, id \in AllIds}

\* The draws of Math.random() of one call, one per point
RandomDraws == [1..HistLen -> RandomSteps]

\* generateHistory(basePrice) called once with any base price and any draws
CallGenerateHistory ==
  \E basePrice \in HistoryBases : \E rnd \in RandomDraws :
     /\ probe = NoCall
     /\ probe' = [fn |-> "generateHistory", basePrice |-> basePrice, points |-> Len(rnd),
                  history |-> generateHistory(variant, basePrice, rnd)]
     /\ UNCHANGED <<variant, adapter, storage, assets, isUpdating, mounted, timer,
                    cycles, started, settled, aiCall, done>>

Timeframes == {"1H", "1D", "1W", "1M", "1Y"}

\* switch (timeframe) { case '1H': points=60; ... }
TimeframePoints(timeframe) ==
  CASE timeframe = "1H" -> 60
    [] timeframe = "1D" -> 24
    [] timeframe = "1W" -> 7
    [] timeframe = "1M" -> 30
    [] timeframe = "1Y" -> 12

\* (1/4) * volatilityFactor * (2.5 / Math.sqrt(points)) in ten-thousandths:
\* the size of one step relative to tempPrice for a draw of +-1/4
TimeframeStep(timeframe) ==
  CASE timeframe = "1H" -> 4
    [] timeframe = "1D" -> 26
    [] timeframe = "1W" -> 71
    [] timeframe = "1M" -> 91
    [] timeframe = "1Y" -> 361

\* The values of tempPrice in the order the loop of getHistoryForTimeframe
\* computes them, prices[1] being the starting one:
\* tempPrice -= change; if (tempPrice < 0) tempPrice = 0.01;
\* The draws repeat with the period of rnd.
RECURSIVE WalkBack(_, _, _)
WalkBack(prices, timeframe, rnd) ==
  IF Len(prices) >= TimeframePoints(timeframe) THEN prices
  ELSE LET tempPrice == prices[Len(prices)]
           draw == rnd[((Len(prices) - 1) % Len(rnd)) + 1]
           size == MulDiv(Abs(tempPrice), TimeframeStep(timeframe), 10 ^ 4)
           change == IF tempPrice < 0 THEN -(draw * size) ELSE draw * size
           moved == tempPrice - change
       IN WalkBack(Append(prices, IF moved < 0 THEN Unit \div 100 ELSE moved),
                   timeframe, rnd)

\* let tempPrice = basePrice || 100;
\* history.unshift({ time, value: Number(tempPrice.toFixed(4)) }) for the
\* starting price and then for each step: the newest point ends up last
getHistoryForTimeframe(basePrice, timeframe, rnd) ==
  LET prices == WalkBack(<<IF basePrice # 0 THEN basePrice ELSE 100 * Unit>>, timeframe, rnd)
      points == Len(prices)
  IN [i \in 1..points |-> [time |-> i - points, value |-> Round4(prices[points - i + 1])]]

\* getHistoryForTimeframe(asset.price, timeframe) called once with any base
\* price, any timeframe and any draws
CallGetHistoryForTimeframe ==
  \E basePrice \in HistoryBases : \E timeframe \in Timeframes : \E rnd \in RandomDraws :
     /\ probe = NoCall
     /\ probe' = [fn |-> "getHistoryForTimeframe", basePrice |-> basePrice,
                  timeframe |-> timeframe,
                  history |-> getHistoryForTimeframe(basePrice, timeframe, rnd)]
     /\ UNCHANGED <<variant, adapter, storage, assets, isUpdating, mounted, timer,
                    cycles, started, settled, aiCall, done>>

\* What localStorage can hold under ASSET_CACHE_KEY when the page starts.
\* An entry of a stored array is null or an object with an id (of the
\* catalogue or not) whose history is missing, empty or has a point.
NullEntry == [kind |-> "null"]

StoredIds == {"sh_silver", "shib", "ghost"}

StoredHistories == {[kind |-> "missing", points |-> <<>>], [kind |-> "array", points |-> <<>>],
                    [kind |-> "array", points |-> <<[time |-> 1, value |-> 5 * Unit]>>]}

StoredEntries ==
  {NullEntry} \cup
  {[kind |-> "object", id |-> id, price |-> 5 * Unit, history |-> h] :
     id \in StoredIds, h \in StoredHistories}

StoreContents ==
  {[kind |-> k, items |-> <<>>] : k \in {"throws", "absent", "unparsable", "notArray"}} \cup
  {[kind |-> "array", items |-> items] :
     items \in {<<>>} \cup {<<e>> : e \in StoredEntries}
                \cup {<<e, f>> : e \in StoredEntries, f \in StoredEntries}}

\* The try block of getInitialAssets up to the Map: localStorage.getItem,
\* JSON.parse, and cachedAssets.map(a => [a.id, a]), which throws for a value
\* that is not an array and for a null entry.  A later entry of the same id
\* replaces an earlier one in the Map; cached.history that is missing is
\* falsy, as an empty one is.
ReadSaved(content) ==
  IF content.kind = "absent" THEN [threw |-> FALSE, saved |-> <<>>]
  ELSE IF \/ content.kind \in {"throws", "unparsable", "notArray"}
          \/ \E j \in 1..Len(content.items) : content.items[j] = NullEntry
       THEN [threw |-> TRUE, saved |-> <<>>]
       ELSE LET last(j) == \A k \in (j + 1)..Len(content.items) :
                              content.items[k].id # content.items[j].id
                n == Len(content.items)
                entry(j) == [id |-> content.items[j].id, price |-> content.items[j].price,
                             change |-> 0, changePercent |-> 0,
                             history |-> content.items[j].history.points,
                             sources |-> NoSources]
            IN [threw |-> FALSE,
                saved |-> SelectSeq([j \in 1..n |-> IF last(j) THEN entry(j)
                                                     ELSE [entry(j) EXCEPT !.id = "replaced"]],
                                    LAMBDA e : e.id # "replaced")]

\* getInitialAssets() called once on a store of any content: catch (e) {}
\* swallows what the try block throws and ALL_POSSIBLE_ASSETS is returned
CallGetInitialAssets ==
  \E content \in StoreContents : \E rnd \in RandomWalks :
     LET read == ReadSaved(content)
         st == [ok |-> ~read.threw, prices |-> EmptyRecord, snapshot |-> read.saved]
     IN /\ probe = NoCall
        /\ probe' = [fn |-> "getInitialAssets", content |-> content, threw |-> FALSE,
                     assets |-> getInitialAssets(variant, Portfolio(variant), rnd, st)]
        /\ UNCHANGED <<variant, adapter, storage, assets, isUpdating, mounted, timer,
                       cycles, started, settled, aiCall, done>>

\* The US indices of ALL_POSSIBLE_ASSETS (part_000), in catalogue order, and
\* the symbol of each
USIndexIds == <<"nasdaq", "dow", "sp500">>

USIndexSymbol(id) ==
  CASE id = "nasdaq" -> "IXIC"
    [] id = "dow" -> "DJI"
    [] id = "sp500" -> "SPX"

\* SINA_CODES_MAP of part_000 for them:
\* nasdaq: 'gb_ixic', dow: 'gb_dji', sp500: 'gb_ixic', // Fallback
SINA_CODES_MAP_US(id) ==
  CASE id = "nasdaq" -> "gb_ixic"
    [] id = "dow" -> "gb_dji"
    [] id = "sp500" -> "gb_ixic"

USIndexCodes == {SINA_CODES_MAP_US(USIndexIds[i]) : i \in 1..Len(USIndexIds)}

\* The instrument a Sina code quotes: gb_ followed by the symbol in lower case
InstrumentOf(code) ==
  CASE code = "gb_ixic" -> "IXIC"
    [] code = "gb_dji" -> "DJI"

\* What fetchSinaData returns for these codes, in whole points: a quote of the
\* code's instrument, or nothing (0) when Sina has no usable line for it
SinaIndexFeeds ==
  {[c \in USIndexCodes |-> IF c \in have THEN (IF c = "gb_ixic" THEN 20100 ELSE 42300) ELSE 0] :
     have \in SUBSET USIndexCodes}

\* branch 2 of the loop of fetchRealTimePrices (part_000):
\* else if (SINA_CODES_MAP[asset.id]) { const val = getSinaVal(asset.id);
\*   if (val && val > 0) { setPrice(asset.id, val, 'Sina Finance'); found = true; } }
ResolveMapped(id, sinaData) ==
  LET code == SINA_CODES_MAP_US(id)
      val == sinaData[code]
  IN IF val > 0 THEN [found |-> TRUE, price |-> val, source |-> "Sina Finance", code |-> code]
     ELSE [found |-> FALSE, price |-> 0, source |-> "", code |-> code]

\* The structured phase of one cycle over a collection of US indices
CallResolveMapped ==
  \E sinaData \in SinaIndexFeeds :
  \E held \in (SUBSET {"nasdaq", "dow", "sp500"}) \ {{}} :
     LET currentAssets == SelectSeq(USIndexIds, LAMBDA id : id \in held)
     IN /\ probe = NoCall
        /\ variant = "part_000"
        /\ probe' = [fn |-> "fetchRealTimePrices", sinaData |-> sinaData,
                     ids |-> currentAssets,
                     res |-> [i \in 1..Len(currentAssets) |->
                                ResolveMapped(currentAssets[i], sinaData)]]
        /\ UNCHANGED <<variant, adapter, storage, assets, isUpdating, mounted, timer,
                       cycles, started, settled, aiCall, done>>

NextHelpers ==
  \/ CallGenerateHistory
  \/ CallGetHistoryForTimeframe
  \/ CallGetInitialAssets
  \/ CallResolveMapped

SpecHelpers == Init /\ [][NextHelpers]_vars

\* The event loop runs every callback that is ready: a load or error event or
\* a timer ends the provider phase, the request of the AI adapter settles, and
\* the call resolves.  A cycle whose promise is pending has no callback ready.
Fairness == WF_<<cycles, mounted>>(CycleResolves)

SpecLive == Spec /\ Fairness

\* ------------------------------------------- the AI adapter on its own
\* fetchLatestPricesViaAI called with any list of the assets of the page,
\* any key configuration and any answer of the generative model
CallAdapter ==
  \E S \in SUBSET RangeOf(IdsOf(assets)) : \E cfg \in KeyConfigs :
    \E r \in AIResponses(RangeOf(IdsOf(assets))) :
       /\ aiCall' = AdapterCall(adapter, cfg, storage,
                                SelectSeq(assets, LAMBDA a : a.id \in S), r)
       /\ UNCHANGED <<variant, adapter, storage, assets, isUpdating, mounted, timer,
                      cycles, started, settled, probe, done>>

NextAI == CallAdapter

SpecAI == Init /\ [][NextAI]_vars

\* ------------------------------------------------------------ properties
\* done is the call of fetchRealTimePrices that resolved in the last step:
\* input and output are its argument and its result, structured what the
\* provider phase resolved, ai what the AI adapter returned, fin the prices
\* after the AI prices were applied, cachedData the flat cache it read,
\* saved what it handed to saveCache.

\* C1: after a refresh that completes without an internal failure, every
\* returned asset has price > 0
C1_PricePositive ==
  (done # NoCall /\ ~done.threw) =>
     \A i \in 1..Len(done.output) : done.output[i].price > 0

\* C2: fetchRealTimePrices never rejects; whatever the providers, the AI
\* adapter and local storage do, it resolves with an array of the same length,
\* the same ids and the same order as its input
C2_NeverRejects ==
  done # NoCall =>
     /\ done.status = "resolved"
     /\ Len(done.output) = Len(done.input)
     /\ \A i \in 1..Len(done.input) : done.output[i].id = done.input[i].id

\* a call whose merge threw (a JSON null or a string price from the AI
\* adapter) on a storage whose every access throws
C2_Witness == done # NoCall /\ done.threw /\ ~storage.ok /\ Len(done.input) > 0

\* C3: at most one refresh cycle is in flight at any time
C3_OneCycleInFlight == Cardinality(cycles) <= 1

\* C4: for the dual-sourced commodity sh_silver in part_000, a domestic quote
\* > 0 gives a structured price derived from that quote alone (the quote, or
\* the quote per kilogram brought to grams) with the label 'Sina (SHFE)', and
\* the international label appears only when the domestic quote is not > 0
C4_DomesticPriority ==
  (settled # NoCall /\ variant = "part_000") =>
     LET domVal == settled.q.sina["nf_AG0"]
         p == settled.fin.prices["sh_silver"]
         s == settled.fin.sources["sh_silver"]
     IN /\ domVal > 0 => (p \in {domVal, domVal \div 1000} /\ s = <<"Sina (SHFE)">>)
        /\ s = <<"COMEX (Int'l)">> => ~(domVal > 0)

\* both quotes arrived and the domestic one was taken
C4_Witness ==
  /\ settled # NoCall /\ variant = "part_000"
  /\ settled.q.sina["nf_AG0"] > 0 /\ settled.q.sina["hf_SI"] > 0
  /\ settled.fin.sources["sh_silver"] = <<"Sina (SHFE)">>

\* C5: in part_000, after a refresh that completes without an internal
\* failure, the sources of an asset name the step that produced its price: the
\* provider label if a provider resolved it, else 'AI Search' if the AI
\* adapter gave a price, else 'Cache' if the flat cache has an entry, else
\* 'Offline'
C5_ProvenanceOrder ==
  (done # NoCall /\ ~done.threw /\ variant = "part_000") =>
     \A i \in 1..Len(done.output) :
        LET id == done.input[i].id
        IN done.output[i].sources =
             (IF done.structured.prices[id] # 0 THEN done.structured.sources[id]
              ELSE IF done.ai.val[id] > 0 THEN <<"AI Search">>
              ELSE IF done.cachedData[id] # 0 THEN <<"Cache">>
              ELSE <<"Offline">>)

\* C6: after a refresh that completes without an internal failure, an asset
\* that no provider and no AI result resolved, with an entry in the flat cache,
\* is returned with the cached value as its price and sources = ["Cache"]
C6_CacheFallback ==
  (done # NoCall /\ ~done.threw) =>
     \A i \in 1..Len(done.output) :
        LET id == done.input[i].id
        IN (done.structured.prices[id] = 0 /\ done.ai.val[id] = 0
              /\ done.cachedData[id] # 0) =>
             /\ done.output[i].price = done.cachedData[id]
             /\ done.output[i].sources = <<"Cache">>

\* C7: after a refresh that completes without an internal failure, an asset
\* that no provider and no AI result resolved, with no entry in the flat cache,
\* keeps its in-memory price (its base price when that is zero) and has
\* sources = ["Offline"]
C7_OfflineFallback ==
  (done # NoCall /\ ~done.threw) =>
     \A i \in 1..Len(done.output) :
        LET id == done.input[i].id
        IN (done.structured.prices[id] = 0 /\ done.ai.val[id] = 0
              /\ done.cachedData[id] = 0) =>
             /\ done.output[i].price =
                  (IF done.input[i].price # 0 THEN done.input[i].price
                   ELSE BASE_PRICES(variant)[id])
             /\ done.output[i].sources = <<"Offline">>

\* C8: every price a call hands to saveCache is one a provider or the AI
\* adapter produced in that call
C8_CacheOnlyLive ==
  done # NoCall =>
     \A id \in AllIds :
        done.saved[id] # 0 => (done.structured.prices[id] # 0 \/ done.ai.val[id] # 0)

\* C9: in part_000 and marketService.ts, when a refresh that completes accepts
\* a price from a provider or the AI adapter, every history value of the asset
\* moves by exactly newPrice - previousPrice
C9_HistoryDrift ==
  (done # NoCall /\ ~done.threw /\ variant # "part_003") =>
     \A i \in 1..Len(done.output) :
        LET id == done.input[i].id
        IN done.fin.prices[id] # 0 =>
             \A k \in 1..Len(done.input[i].history) :
                done.output[i].history[k].value =
                  done.input[i].history[k].value
                    + (done.fin.prices[id] - done.input[i].price)

\* C10: an asset whose price comes from the cache or from the offline
\* fallback keeps its history exactly as it was before the call
C10_FallbackKeepsHistory ==
  done # NoCall =>
     \A i \in 1..Len(done.output) :
        LET id == done.input[i].id
        IN (done.structured.prices[id] = 0 /\ done.ai.val[id] = 0) =>
             done.output[i].history = done.input[i].history

\* C11: the history of every asset of the App is never empty, and a call of
\* fetchRealTimePrices returns every asset with a history of the same number
\* of points, in the same order, with the same time labels as it was given
C11_HistoryShape ==
  /\ \A i \in 1..Len(assets) : Len(assets[i].history) > 0
  /\ done # NoCall =>
       \A i \in 1..Len(done.output) :
          /\ Len(done.output[i].history) = Len(done.input[i].history)
          /\ \A k \in 1..Len(done.input[i].history) :
                done.output[i].history[k].time = done.input[i].history[k].time

\* a call that accepted a live price and moved a history
C11_Witness ==
  /\ done # NoCall /\ ~done.threw
  /\ \E i \in 1..Len(done.output) :
        /\ done.output[i].history # done.input[i].history
        /\ Len(done.output[i].history) = HistLen

\* C12: a call of fetchRealTimePrices in which an exception was thrown returns
\* the collection it was given, unchanged, and leaves both the flat price cache
\* and the snapshot as they were
C12_FailureWritesNothing ==
  [][(done' # NoCall /\ done'.threw) =>
       (done'.output = done'.input /\ storage' = storage)]_vars

\* the merge threw on a working storage after a price had been accepted
C12_Witness ==
  /\ done # NoCall /\ done.threw /\ storage.ok
  /\ \E id \in AllIds : done.fin.prices[id] # 0

\* C13 (as stated): for sh_composite in part_003, when Sina and Tencent both
\* give a value and they differ by at most 1% the price is their average, when
\* they differ by more than 1% it is the Sina value, when one gives a value
\* that value is used, and when neither does the asset is unresolved
C13_CrossValidation_Stated ==
  (settled # NoCall /\ variant = "part_003") =>
     LET valSina == settled.q.sina["sh000001"]
         valTencent == settled.q.tencent["sh_composite"]
         p == settled.fin.prices["sh_composite"]
     IN /\ (valSina > 0 /\ valTencent > 0 /\ Abs(valSina - valTencent) * 100 <= valSina)
             => p = (valSina + valTencent) \div 2
        /\ (valSina > 0 /\ valTencent > 0 /\ Abs(valSina - valTencent) * 100 > valSina)
             => p = valSina
        /\ (valSina > 0 /\ valTencent = 0) => p = valSina
        /\ (valSina = 0 /\ valTencent > 0) => p = valTencent
        /\ (valSina = 0 /\ valTencent = 0) =>
             (p = 0 /\ \E i \in 1..Len(settled.fin.missingAssets) :
                         settled.fin.missingAssets[i].id = "sh_composite")

\* C13 (amended): the average is taken when the difference, relative to the
\* Sina value, is strictly below 1%; at 1% or more the price is the Sina value
C13_CrossValidation ==
  (settled # NoCall /\ variant = "part_003") =>
     LET valSina == settled.q.sina["sh000001"]
         valTencent == settled.q.tencent["sh_composite"]
         p == settled.fin.prices["sh_composite"]
     IN /\ (valSina > 0 /\ valTencent > 0 /\ Abs(valSina - valTencent) * 100 < valSina)
             => p = (valSina + valTencent) \div 2
        /\ (valSina > 0 /\ valTencent > 0 /\ Abs(valSina - valTencent) * 100 >= valSina)
             => p = valSina
        /\ (valSina > 0 /\ valTencent = 0) => p = valSina
        /\ (valSina = 0 /\ valTencent > 0) => p = valTencent
        /\ (valSina = 0 /\ valTencent = 0) =>
             (p = 0 /\ \E i \in 1..Len(settled.fin.missingAssets) :
                         settled.fin.missingAssets[i].id = "sh_composite")

\* both feeds answered and they differ by exactly 1% of the Sina value
C13_Witness ==
  /\ settled # NoCall /\ variant = "part_003"
  /\ settled.q.sina["sh000001"] > 0 /\ settled.q.tencent["sh_composite"] > 0
  /\ Abs(settled.q.sina["sh000001"] - settled.q.tencent["sh_composite"]) * 100
       = settled.q.sina["sh000001"]
  /\ settled.fin.prices["sh_composite"] = settled.q.sina["sh000001"]

\* C14: a raw value for sh_silver quoted per kilogram (7150) becomes the price
\* per gram (7.15) by one division by 1000, and a raw value per gram (7.15)
\* stays as it is; checked on the Sina domestic quote after the provider phase
\* and on the value of the AI adapter in the returned asset
C14_SilverPerGram ==
  /\ settled # NoCall =>
       LET raw == settled.q.sina["nf_AG0"]
       IN ("sh_silver" \in RangeOf(IdsOf(settled.input)) /\ raw > 0) =>
            settled.fin.prices["sh_silver"] =
              (IF raw > 1000 * Unit THEN raw \div 1000 ELSE raw)
  /\ (done # NoCall /\ ~done.threw) =>
       \A i \in 1..Len(done.output) :
          LET raw == done.ai.val["sh_silver"]
          IN (done.output[i].id = "sh_silver"
                /\ done.output[i].sources \in {<<"AI Search">>, <<"AI (Huilvbao)">>}) =>
               done.output[i].price =
                 Round4(IF raw > 1000 * Unit THEN raw \div 1000 ELSE raw)

\* C15 (as stated): after saveCache(newPrices) every key of newPrices maps to
\* its new value in the cache that loadCache reads
C15_MergeSemantics_Stated ==
  [][done' # NoCall =>
       \A id \in AllIds :
          done'.saved[id] # 0 => loadCache(storage')[id] = done'.saved[id]]_vars

\* C15 (amended): on a localStorage that can be read and written, after
\* saveCache(newPrices) every key of newPrices maps to its new value and every
\* other cached key keeps its old value, and no step ever removes a cached
\* id; on a localStorage that throws, saveCache changes nothing
C15_MergeSemantics ==
  [][/\ (done' # NoCall /\ storage.ok) =>
          \A id \in AllIds :
             /\ done'.saved[id] # 0 => loadCache(storage')[id] = done'.saved[id]
             /\ done'.saved[id] = 0 => loadCache(storage')[id] = loadCache(storage)[id]
     /\ \A id \in AllIds : storage.prices[id] # 0 => storage'.prices[id] # 0
     /\ ~storage.ok => storage' = storage]_vars

\* a call saved a new price for one asset while the cache held an older
\* entry for another asset that the call did not save
C15_Witness ==
  /\ done # NoCall /\ storage.ok
  /\ \E id1, id2 \in AllIds :
        /\ done.saved[id1] # 0 /\ storage.prices[id1] = done.saved[id1]
        /\ done.saved[id2] = 0 /\ storage.prices[id2] # 0

C17_DerivedFields ==
  (done # NoCall /\ ~done.threw /\ variant # "part_003") =>
     \A i \in 1..Len(done.output) :
        LET id == done.input[i].id
            price == IF done.fin.prices[id] # 0 THEN done.fin.prices[id]
                     ELSE IF done.cachedData[id] # 0 THEN done.cachedData[id]
                     ELSE IF done.input[i].price # 0 THEN done.input[i].price
                     ELSE BASE_PRICES(variant)[id]
            first == done.output[i].history[1].value
        IN /\ done.output[i].change = Round4(price - first)
           /\ first # 0 => done.output[i].changePercent = PctOf(price - first, first)

\* The call of fetchRealTimePrices that would follow the one that has just
\* resolved: it is given the collection that call returned and reads the
\* storage that call left; the providers resolve the assets they resolved,
\* with the prices and labels they gave, and the AI adapter returns what it
\* returned.
C18_SecondRun ==
  LET fin == [done.structured EXCEPT
                !.missingAssets =
                   SelectSeq(done.output, LAMBDA a : done.structured.sources[a.id] = <<>>)]
      c == [n |-> done.n + 1, trigger |-> "manual", input |-> done.output,
            pc |-> "ai", fin |-> fin, sina |-> done.sina, tencent |-> done.tencent,
            cachedPrices |-> IF variant = "part_003" THEN loadCache(storage)
                             ELSE EmptyRecord]
  IN Complete(c, done.ai)

\* C18: a refresh fed with the output of the refresh before it, with the
\* providers, the AI service and everything outside the stores unchanged,
\* returns every asset with the price and the sources the first refresh
\* returned
C18_Idempotent ==
  done # NoCall =>
     \A i \in 1..Len(done.output) :
        /\ C18_SecondRun.output[i].price = done.output[i].price
        /\ C18_SecondRun.output[i].sources = done.output[i].sources

\* C19: fetchLatestPricesViaAI returns the empty result, without constructing
\* the client and without a request, when there is neither a stored user key
\* it can use (readable, longer than 10 characters) nor a build-time key, and
\* when the list of assets to fetch is empty
C19_NoKeyNoCall ==
  (aiCall # NoCall
     /\ \/ /\ (~storage.ok \/ aiCall.cfg.local.length <= 10)
            /\ aiCall.cfg.env.length = 0
         \/ aiCall.ids = <<>>)
  => (aiCall.result = NoAIPrices /\ ~aiCall.client /\ ~aiCall.request)

\* A call with assets to fetch, a stored key too short to be used and no
\* build-time key has returned
C19_Witness ==
  /\ aiCall # NoCall
  /\ aiCall.ids # <<>>
  /\ storage.ok
  /\ aiCall.cfg.local.length = 8
  /\ aiCall.cfg.env.length = 0
  /\ aiCall.result = NoAIPrices
  /\ ~aiCall.client

\* C20: every refresh cycle in flight eventually resolves, and isUpdating
\* eventually returns to false, whatever the injected script does
C20_CyclesResolve ==
  /\ (cycles # {}) ~> (cycles = {})
  /\ isUpdating ~> ~isUpdating

C22_ChunkIsolation ==
  aiCall # NoCall =>
    LET N == Len(aiCall.requests)
        failed(k) == aiCall.answers[k].status # "json"
    IN /\ \A k \in 1..N : Len(aiCall.requests[k]) <= 3
       /\ \A i \in 1..Len(aiCall.ids) :
             Cardinality({<<k, j>> \in (1..N) \X (1..3) :
                            j <= Len(aiCall.requests[k])
                            /\ aiCall.requests[k][j] = aiCall.ids[i]}) = 1
       /\ \A k \in 1..N : \A id \in AllIds :
             /\ (failed(k) /\ id \in RangeOf(aiCall.requests[k])
                    /\ \A m \in 1..N : aiCall.answers[m].kind[id] = "absent")
                  => aiCall.result.val[id] = 0
             /\ (~failed(k) /\ aiCall.answers[k].kind[id] # "absent")
                  => aiCall.result.val[id] = AIQuote(id)

\* C23: an asset is returned under the label of a structured provider or of
\* the AI fallback only with a value above 0 from that source: a value that is
\* 0 or negative is never accepted as the asset's price
C23_NonPositiveIsNotFound ==
  (done # NoCall /\ ~done.threw) =>
     \A i \in 1..Len(done.output) :
        LET id == done.input[i].id
            src == done.output[i].sources
            accepted == IF variant = "part_003" /\ src = <<"AI Search">>
                        THEN done.ai.val[id] ELSE done.fin.prices[id]
        IN (src # <<>> /\ src \notin {<<"Cache">>, <<"Offline">>, <<"Base">>})
             => accepted > 0

\* C24: generateHistory(basePrice, points) returns points points, oldest
\* first, and its last point has the value basePrice (to the 4 decimals a
\* point keeps) whatever the random steps
C24_HistoryEndsAtBase ==
  (probe # NoCall /\ probe.fn = "generateHistory") =>
     /\ Len(probe.history) = probe.points
     /\ \A i \in 1..(Len(probe.history) - 1) :
           probe.history[i].time < probe.history[i + 1].time
     /\ probe.history[Len(probe.history)].value = Round4(probe.basePrice)

\* C25: getHistoryForTimeframe returns 60, 24, 7, 30 or 12 points for 1H, 1D,
\* 1W, 1M, 1Y, its last point has the value basePrice (to the 4 decimals a
\* point keeps), and every point's stored value is above 0
C25_TimeframeHistory ==
  (probe # NoCall /\ probe.fn = "getHistoryForTimeframe") =>
     /\ Len(probe.history) =
           (CASE probe.timeframe = "1H" -> 60 [] probe.timeframe = "1D" -> 24
              [] probe.timeframe = "1W" -> 7 [] probe.timeframe = "1M" -> 30
              [] probe.timeframe = "1Y" -> 12)
     /\ probe.history[Len(probe.history)].value = Round4(probe.basePrice)
     /\ \A i \in 1..Len(probe.history) : probe.history[i].value > 0

\* C26: whatever the snapshot store holds (nothing, text that does not parse,
\* a value that is not an array, entries with a missing or empty history,
\* unknown ids) and when the storage throws, getInitialAssets returns the
\* catalogue's assets in catalogue order, each with a non-empty history, and
\* does not throw
C26_ColdStart ==
  (probe # NoCall /\ probe.fn = "getInitialAssets") =>
     /\ ~probe.threw
     /\ IdsOf(probe.assets) = Portfolio(variant)
     /\ \A i \in 1..Len(probe.assets) : Len(probe.assets[i].history) > 0

\* a stored entry of a catalogue asset with an empty history was restored
C26_Witness ==
  /\ probe # NoCall /\ probe.fn = "getInitialAssets"
  /\ probe.content.kind = "array"
  /\ \E i \in 1..Len(probe.assets) : \E j \in 1..Len(probe.content.items) :
        /\ probe.content.items[j] # NullEntry
        /\ probe.content.items[j].id = probe.assets[i].id
        /\ probe.content.items[j].history.points = <<>>
        /\ probe.assets[i].price = 5 * Unit
        /\ Len(probe.assets[i].history) = HistLen

\* C27: an asset that a structured provider resolved in a cycle is returned
\* by that cycle with the provider's price (to 4 decimals) and the provider's
\* label, whatever the AI answer of the same cycle holds, keys of assets it
\* was not asked about included.  part_000 and marketService.ts set the label
\* with the price; part_003 labels at the merge, where the label must not be
\* the AI's.
C27_ProviderPriceKept ==
  (done # NoCall /\ ~done.threw) =>
     \A i \in 1..Len(done.output) :
        LET id == done.input[i].id
        IN done.structured.prices[id] > 0 =>
             /\ done.output[i].price = Round4(done.structured.prices[id])
             /\ IF variant = "part_003" THEN done.output[i].sources # <<"AI Search">>
                ELSE done.output[i].sources = done.structured.sources[id]

\* C28: a refresh cycle that the shell starts (on mount, on an interval tick
\* or from the button) is given the collection the shell holds at that
\* moment, which is the one the most recently completed cycle produced
C28_StartsFromLatest ==
  [][started' = started + 1 =>
       \E c \in cycles' : c.n = started' /\ c.input = assets]_vars

\* C29: when the AI answer of a cycle holds a value that is not a number for
\* one asset (a numeric string), the cycle still returns, for every other
\* asset that a live provider resolved and the answer does not mention, the
\* provider's price (to 4 decimals) with a label
C29_MalformedValueIsolated ==
  (done # NoCall /\ ~done.ai.null /\ done.ai.str # {}) =>
     \A i \in 1..Len(done.input) :
        LET id == done.input[i].id
        IN (id \notin done.ai.str /\ done.ai.val[id] = 0 /\ done.structured.prices[id] > 0) =>
             /\ done.status = "resolved"
             /\ done.output[i].price = Round4(done.structured.prices[id])
             /\ done.output[i].sources # <<>>

\* C30: two distinct directly-mapped catalogue assets of a cycle never share
\* a Sina instrument code, and an asset labelled 'Sina Finance' has the quote
\* of its own instrument, not that of another one
C30_DistinctSinaCodes ==
  (probe # NoCall /\ probe.fn = "fetchRealTimePrices") =>
     /\ \A i, j \in 1..Len(probe.ids) :
          i # j => probe.res[i].code # probe.res[j].code
     /\ \A i \in 1..Len(probe.ids) :
          probe.res[i].source = "Sina Finance" =>
             InstrumentOf(probe.res[i].code) = USIndexSymbol(probe.ids[i])

====
